---- MODULE Spec2Model ----
(***************************************************************************)
(* lightgrid::grid<T, CellSize, ZBitWidth> (include/lightgrid/grid.hpp).   *)
(*                                                                         *)
(* A std::vector is modelled by its storage (a sequence that keeps what    *)
(* was written beyond size(): clear() and resize() of trivially            *)
(* destructible items do not release or wipe it) and a separate size.      *)
(* Indices are 0-based as in the source: At(v, i) is v[i].                 *)
(*                                                                         *)
(* An access outside [0, size) is undefined behaviour.  Its outcomes are   *)
(* chosen by the parameter ub of every operation:                          *)
(*   "trap"    the build checks the access (assert, hardened operator[])   *)
(*             and the process stops: fault becomes TRUE;                  *)
(*   "lenient" the access goes to whatever the storage holds there.        *)
(* An access that is outside the storage altogether and whose effect       *)
(* cannot be told from the grid's own memory also ends in fault.           *)
(***************************************************************************)
EXTENDS Integers, Sequences, FiniteSets, TLC

\* ------------------------------------------------------------------ sizes
CellSize == 10
ZBitWidth == 3

\* the callers make at most MaxOps calls
MaxOps == 5

\* the values stored: the i-th insert stores Val(i), so no value is stored twice
Val(i) == 100 + i
Values == {Val(i) : i \in 1..MaxOps}
UB == {"trap", "lenient"}

\* ------------------------------------------------------- bounds and cells
Bounds(x, y, w, h) == [x |-> x, y |-> y, w |-> w, h |-> h]
CellBounds(xs, xe, ys, ye) == [x_start |-> xs, x_end |-> xe, y_start |-> ys, y_end |-> ye]

\* C++ integer division truncates towards zero
\* a division that rounds down instead of towards zero
FloorDiv(a, b) == a \div b

TruncDiv(a, b) == IF a >= 0 THEN a \div b ELSE -((-a) \div b)

get_cell_bounds(b) ==
    CellBounds(TruncDiv(b.x, CellSize), TruncDiv(b.x + b.w, CellSize),
               TruncDiv(b.y, CellSize), TruncDiv(b.y + b.h, CellSize))

\* ---------------------------------------------------------------- z-order
\* An unsigned word is the set of the positions of its 1 bits.
RECURSIVE NatBits(_, _)
NatBits(n, i) == IF n = 0 THEN {}
                 ELSE (IF n % 2 = 1 THEN {i} ELSE {}) \cup NatBits(n \div 2, i + 1)

\* int -> uint32_t: the two's complement pattern
Bits32(x) == IF x >= 0 THEN NatBits(x, 0) ELSE (0..31) \ NatBits(-(x + 1), 0)

Shl(s, k) == {i + k : i \in s} \cap (0..63)
Mask16 == {i \in 0..63 : (i \div 16) % 2 = 0}
Mask8 == {i \in 0..63 : (i \div 8) % 2 = 0}
Mask4 == {i \in 0..63 : (i \div 4) % 2 = 0}
Mask2 == {i \in 0..63 : (i \div 2) % 2 = 0}
Mask1 == {i \in 0..63 : i % 2 = 0}

interleave_with_zeros(input) ==
    LET r0 == input
        r1 == (r0 \cup Shl(r0, 16)) \cap Mask16
        r2 == (r1 \cup Shl(r1, 8)) \cap Mask8
        r3 == (r2 \cup Shl(r2, 4)) \cap Mask4
        r4 == (r3 \cup Shl(r3, 2)) \cap Mask2
        r5 == (r4 \cup Shl(r4, 1)) \cap Mask1
    IN r5

interleave(x, y) == interleave_with_zeros(x) \cup Shl(interleave_with_zeros(y), 1)

\* a mask one bit wider than the head region
wrapping_bit_mask_wide == 0..ZBitWidth

wrapping_bit_mask == 0..(ZBitWidth - 1)

RECURSIVE Pow2(_)
Pow2(n) == IF n = 0 THEN 1 ELSE 2 * Pow2(n - 1)

RECURSIVE BitsNat(_)
BitsNat(s) == IF s = {} THEN 0
              ELSE LET i == CHOOSE j \in s : TRUE IN Pow2(i) + BitsNat(s \ {i})

\* a z_order with the two coordinates exchanged
z_order_swapped(x, y) == BitsNat(interleave(Bits32(y), Bits32(x)) \cap wrapping_bit_mask)

z_order(x, y) == BitsNat(interleave(Bits32(x), Bits32(y)) \cap wrapping_bit_mask)

\* number of head slots: wrapping_bit_mask + 1
NumHeads == Pow2(ZBitWidth)

\* z_order on the cells the callers reach, computed once
MaxCoord == 3
ZTable == [xx \in 0..MaxCoord, yy \in 0..MaxCoord |-> z_order(xx, yy)]
Address(xx, yy) == IF << xx, yy >> \in DOMAIN ZTable THEN ZTable[xx, yy] ELSE z_order(xx, yy)

\* the addresses insert, remove, update and query visit, in loop order
RECURSIVE RowAddrs(_, _, _)
RowAddrs(xx, x_end, yy) ==
    IF xx > x_end THEN << >> ELSE << Address(xx, yy) >> \o RowAddrs(xx + 1, x_end, yy)

RECURSIVE CellAddrs(_, _)
CellAddrs(cb, yy) ==
    IF yy > cb.y_end THEN << >>
    ELSE RowAddrs(cb.x_start, cb.x_end, yy) \o CellAddrs(cb, yy + 1)

\* ---------------------------------------------------------------- vectors
node(e, n) == [element |-> e, next |-> n]

At(v, i) == v[i + 1]
Put(v, i, x) == [v EXCEPT ![i + 1] = x]
InStore(v, i) == i >= 0 /\ i < Len(v)
\* emplace_back / push_back at position size: reuses the storage when there is some
PushAt(v, size, x) == IF size < Len(v) THEN Put(v, size, x) ELSE Append(v, x)
\* resize(n) from size: value-initialises the new items
RECURSIVE ResizeTo(_, _, _, _)
ResizeTo(v, size, n, x) ==
    IF size >= n THEN v ELSE ResizeTo(PushAt(v, size, x), size + 1, n, x)


\* ------------------------------------------------------- the grid's state
VARIABLES
    elements, elements_size,            \* std::vector<T> elements
    element_nodes, element_nodes_size,  \* std::vector<node> element_nodes
    cell_nodes, cell_nodes_size,        \* std::vector<node> cell_nodes
    last_query, query_set, query_size,  \* the deduplication scratch state
    free_element_nodes, free_cell_nodes, num_elements,
    fault,      \* the process left defined behaviour and stopped
    oor,        \* the out-of-range accesses of the last operation: <<vector, index>>
    ents,       \* the caller's entities: value -> [h, b] (handle and bounds) or NoEnt
    lastop,     \* the last public call and its arguments
    prevop,     \* the call before it
    nins, nops, \* the number of inserts and of calls made so far
    ret,        \* the handle the last insert returned (-1 after any other call)
    results,    \* what the last query appended to the caller's container
    pure,       \* the last call of a function that reads no grid state:
                \* [fn, arg, val] (its name, its arguments, what it returned)
    thr,        \* the threads inside query(): thread -> its position and locals
                \* (empty while a single thread uses the grid)
    nodes,            \* overflow variant: instance -> address -> node
    global_overflow,  \* overflow variant: the static vector of [entity, owner]
    broken,     \* overflow variant: a call left defined behaviour
    held,       \* overflow variant: instance -> entity -> the bounds it is in, or NoBounds
    ovins, ovops,     \* overflow variant: the number of inserts and of calls so far
    ovlast,     \* overflow variant: the last call [op, g, e, b]
    seen        \* overflow variant: what the last traverse called the callback with

gridvars == << elements, elements_size, element_nodes, element_nodes_size,
               cell_nodes, cell_nodes_size, last_query, query_set, query_size,
               free_element_nodes, free_cell_nodes, num_elements >>
ovvars == << nodes, global_overflow, broken, held, ovins, ovops, ovlast, seen >>
vars == << gridvars, fault, oor, ents, lastop, prevop, nins, nops, ret, results, pure, thr,
           ovvars >>

NoPure == [fn |-> "", arg |-> << >>, val |-> << >>]

NoEnt == [h |-> -1, b |-> Bounds(0, 0, 0, 0)]

\* the grid as one value, for the operators below
Grid == [elements |-> elements, elements_size |-> elements_size,
         element_nodes |-> element_nodes, element_nodes_size |-> element_nodes_size,
         cell_nodes |-> cell_nodes, cell_nodes_size |-> cell_nodes_size,
         last_query |-> last_query, query_set |-> query_set, query_size |-> query_size,
         free_element_nodes |-> free_element_nodes, free_cell_nodes |-> free_cell_nodes,
         num_elements |-> num_elements,
         fault |-> FALSE, oor |-> {}, ret |-> -1, results |-> << >>]

\* an access v[i] of a vector of the given size
Acc(g, name, v, size, i, ub) ==
    IF i >= 0 /\ i < size THEN g
    ELSE [g EXCEPT !.oor = @ \cup {<< name, i >>},
                   !.fault = (ub = "trap") \/ ~InStore(v, i)]

Hang(g, i) == [g EXCEPT !.oor = @ \cup {<< "loop", i >>}, !.fault = TRUE]

\* a walk that made more steps than there are nodes is in a cycle
Fuel(g) == Len(g.cell_nodes) + 1

\* ------------------------------------------------------------ element arena
element_insert(g, element, ub) ==
    IF g.fault THEN g
    ELSE IF g.free_element_nodes # -1 THEN
        LET new_element_node == g.free_element_nodes
            g0 == Acc(g, "element_nodes", g.element_nodes, g.element_nodes_size,
                      new_element_node, ub)
        IN  IF g0.fault THEN g0
            ELSE LET e == At(g.element_nodes, new_element_node).element
                     g1 == Acc(g0, "elements", g.elements, g.elements_size, e, ub)
                 IN  IF g1.fault THEN g1
                     ELSE [g1 EXCEPT
                             !.free_element_nodes = At(g.element_nodes, new_element_node).next,
                             !.elements = Put(g.elements, e, element),
                             !.ret = new_element_node]
    ELSE
        [g EXCEPT !.element_nodes = PushAt(g.element_nodes, g.element_nodes_size,
                                           node(g.elements_size, -1)),
                  !.element_nodes_size = @ + 1,
                  !.elements = PushAt(g.elements, g.elements_size, element),
                  !.elements_size = @ + 1,
                  !.ret = g.element_nodes_size]

element_remove(g, element_node, ub) ==
    IF g.fault THEN g
    ELSE LET g0 == Acc(g, "element_nodes", g.element_nodes, g.element_nodes_size,
                       element_node, ub)
         IN  IF g0.fault THEN g0
             ELSE [g0 EXCEPT
                     !.element_nodes = Put(g.element_nodes, element_node,
                         [At(g.element_nodes, element_node) EXCEPT
                             !.next = g.free_element_nodes]),
                     !.free_element_nodes = element_node]

\* ------------------------------------------------------------ cell node arena
cell_insert(g, cell_node, element_node, ub) ==
    IF g.fault THEN g
    ELSE IF g.free_cell_nodes # -1 THEN
        LET f == g.free_cell_nodes
            g0 == Acc(g, "cell_nodes", g.cell_nodes, g.cell_nodes_size, f, ub)
        IN  IF g0.fault THEN g0
            ELSE LET c0 == g.cell_nodes
                     \* scratchpad: element := next
                     c1 == Put(c0, f, [At(c0, f) EXCEPT !.element = At(c0, f).next])
                     c2 == Put(c1, f, [At(c1, f) EXCEPT !.next = At(c1, cell_node).next])
                     c3 == Put(c2, cell_node, [At(c2, cell_node) EXCEPT !.next = f])
                     nf == At(c3, f).element
                     first == At(c3, cell_node).next
                     c4 == Put(c3, first, [At(c3, first) EXCEPT !.element = element_node])
                 IN  [g0 EXCEPT !.cell_nodes = c4, !.free_cell_nodes = nf]
    ELSE
        LET sz == g.cell_nodes_size
            c1 == PushAt(g.cell_nodes, sz, node(element_node, At(g.cell_nodes, cell_node).next))
            c2 == Put(c1, cell_node, [At(c1, cell_node) EXCEPT !.next = sz])
        IN  [g EXCEPT !.cell_nodes = c2, !.cell_nodes_size = sz + 1]

\* the do-while loop of cell_remove, entered at the top of its body
RECURSIVE remove_walk(_, _, _, _, _)
remove_walk(g, current_node, element_node, ub, fuel) ==
    IF current_node = -1 THEN g
    ELSE IF fuel = 0 THEN Hang(g, current_node)
    ELSE
        LET previous_node == current_node
            cur == At(g.cell_nodes, current_node).next
            \* the loop condition reads cell_nodes[cur].element, also when cur is -1
            g0 == Acc(g, "cell_nodes", g.cell_nodes, g.cell_nodes_size, cur, ub)
        IN  IF cur = -1 THEN
                \* what lies before the storage: a trap, or a value that is not
                \* element_node (then the next pass returns); a value that is
                \* element_node makes the unlink write before the storage
                [g0 EXCEPT !.fault = (ub = "trap")]
            ELSE IF g0.fault THEN g0
            ELSE IF At(g.cell_nodes, cur).element # element_node THEN
                remove_walk(g0, cur, element_node, ub, fuel - 1)
            ELSE
                LET c0 == g.cell_nodes
                    c1 == Put(c0, previous_node,
                              [At(c0, previous_node) EXCEPT !.next = At(c0, cur).next])
                    c2 == Put(c1, cur, [At(c1, cur) EXCEPT !.next = g.free_cell_nodes])
                IN  [g0 EXCEPT !.cell_nodes = c2, !.free_cell_nodes = cur]

\* a removal that frees the head slot of the list instead of the node found
cell_remove_frees_head(g, cell_node, element_node, ub) ==
    [g EXCEPT !.cell_nodes = Put(@, cell_node, node(-1, g.free_cell_nodes)),
              !.free_cell_nodes = cell_node]

cell_remove(g, cell_node, element_node, ub) ==
    IF g.fault THEN g ELSE remove_walk(g, cell_node, element_node, ub, Fuel(g))

\* the while loop of cell_query
RECURSIVE query_walk(_, _, _, _)
query_walk(g, current_node, ub, fuel) ==
    IF current_node = -1 THEN g
    ELSE IF fuel = 0 THEN Hang(g, current_node)
    ELSE
        \* assert(current_node < cell_nodes.size())
        LET g0 == Acc(g, "cell_nodes", g.cell_nodes, g.cell_nodes_size, current_node, ub)
        IN  IF g0.fault THEN g0
            ELSE
            LET current_element == At(g.cell_nodes, current_node).element
                g1 == Acc(g0, "query_set", g.query_set, Len(g.query_set), current_element, ub)
            IN  IF g1.fault THEN g1
                ELSE
                LET condition == IF At(g.query_set, current_element) THEN 0 ELSE 1
                    inside == g.query_size < Len(g.last_query)
                    \* last_query[query_size] = current_element, whatever condition is
                    g2 == IF inside THEN g1
                          ELSE [g1 EXCEPT !.oor = @ \cup {<< "last_query", g.query_size >>},
                                          !.fault = (ub = "trap") \/ condition = 1]
                IN  IF g2.fault THEN g2
                    ELSE query_walk(
                        [g2 EXCEPT
                            !.last_query = IF inside
                                           THEN Put(@, g.query_size, current_element) ELSE @,
                            !.query_size = @ + condition,
                            !.query_set = Put(@, current_element, TRUE)],
                        At(g.cell_nodes, current_node).next, ub, fuel - 1)

\* a destructive read: the walk of the list, which then detaches it from its head
cell_query_detach(g, cell_node, ub) ==
    IF g.fault THEN g
    ELSE LET g1 == query_walk(g, At(g.cell_nodes, cell_node).next, ub, Fuel(g))
         IN  IF g1.fault THEN g1
             ELSE [g1 EXCEPT !.cell_nodes =
                        Put(@, cell_node, [At(@, cell_node) EXCEPT !.next = -1])]

cell_query(g, cell_node, ub) ==
    IF g.fault THEN g
    ELSE query_walk(g, At(g.cell_nodes, cell_node).next, ub, Fuel(g))

RECURSIVE reset_walk(_, _)
reset_walk(g, i) ==
    IF i >= g.query_size THEN [g EXCEPT !.query_size = 0]
    ELSE reset_walk([g EXCEPT !.query_set = Put(@, At(g.last_query, i), FALSE)], i + 1)

\* a reset that zeroes query_size and leaves the markers set
reset_size_only(g) == IF g.fault THEN g ELSE [g EXCEPT !.query_size = 0]

reset_query_set(g) == IF g.fault THEN g ELSE reset_walk(g, 0)


\* ------------------------------------------------------- public operations
RECURSIVE insert_cells(_, _, _, _, _)
insert_cells(g, addrs, i, element_node, ub) ==
    IF i > Len(addrs) THEN g
    ELSE insert_cells(cell_insert(g, addrs[i], element_node, ub), addrs, i + 1,
                      element_node, ub)

RECURSIVE remove_cells(_, _, _, _, _)
remove_cells(g, addrs, i, element_node, ub) ==
    IF i > Len(addrs) THEN g
    ELSE remove_cells(cell_remove(g, addrs[i], element_node, ub), addrs, i + 1,
                      element_node, ub)

RECURSIVE query_cells(_, _, _, _)
query_cells(g, addrs, i, ub) ==
    IF i > Len(addrs) THEN g
    ELSE query_cells(cell_query(g, addrs[i], ub), addrs, i + 1, ub)

\* a clear() without the resize of cell_nodes to the head region
clear_no_heads(g) ==
    [g EXCEPT !.elements_size = 0,
              !.element_nodes_size = 0,
              !.cell_nodes_size = 0]

\* a clear() that empties the element arenas but keeps the cell lists
clear_keep_cells(g) ==
    [g EXCEPT !.elements_size = 0,
              !.element_nodes_size = 0]

\* grid::grid() and grid::clear()
clear(g) ==
    [g EXCEPT !.elements_size = 0,
              !.element_nodes_size = 0,
              !.cell_nodes = ResizeTo(@, 0, NumHeads, node(-1, -1)),
              !.cell_nodes_size = NumHeads]

\* an insert that resizes the scratch vectors to num_elements whenever the two
\* differ, also downwards
insert_resize_always(g, element, cb, ub) ==
    LET g1 == element_insert(g, element, ub)
        g2 == insert_cells(g1, CellAddrs(cb, cb.y_start), 1, g1.ret, ub)
        n == g2.num_elements + 1
    IN  IF g2.fault THEN g2
        ELSE [g2 EXCEPT !.num_elements = n,
                        !.last_query = IF Len(@) > n THEN SubSeq(@, 1, n)
                                       ELSE ResizeTo(@, Len(@), n, 0),
                        !.query_set = IF Len(@) > n THEN SubSeq(@, 1, n)
                                      ELSE ResizeTo(@, Len(@), n, FALSE)]

\* insert(T, const cell_bounds&)
insert(g, element, cb, ub) ==
    LET g1 == element_insert(g, element, ub)
        g2 == insert_cells(g1, CellAddrs(cb, cb.y_start), 1, g1.ret, ub)
        n == g2.num_elements + 1
    IN  IF g2.fault THEN g2
        \* query_set.size() < num_elements compares as size_t
        ELSE IF n < 0 THEN [g2 EXCEPT !.num_elements = n, !.fault = TRUE]
        ELSE IF Len(g2.query_set) < n
             THEN [g2 EXCEPT !.num_elements = n,
                             !.last_query = ResizeTo(@, Len(@), n, 0),
                             !.query_set = ResizeTo(@, Len(@), n, FALSE)]
             ELSE [g2 EXCEPT !.num_elements = n]

\* remove(int, const cell_bounds&)
remove(g, element_node, cb, ub) ==
    LET g1 == remove_cells(g, CellAddrs(cb, cb.y_start), 1, element_node, ub)
        g2 == element_remove(g1, element_node, ub)
    IN  IF g2.fault THEN g2 ELSE [g2 EXCEPT !.num_elements = @ - 1]

\* update(int, const cell_bounds&, const cell_bounds&)
update(g, element_node, old_bounds, new_bounds, ub) ==
    LET g1 == remove_cells(g, CellAddrs(old_bounds, old_bounds.y_start), 1, element_node, ub)
    IN  insert_cells(g1, CellAddrs(new_bounds, new_bounds.y_start), 1, element_node, ub)

\* a transform over the whole of last_query instead of the span [0, query_size)
RECURSIVE collect_whole(_, _, _)
collect_whole(g, i, ub) ==
    IF g.fault \/ i >= Len(g.last_query) THEN g
    ELSE LET e == At(g.element_nodes, At(g.last_query, i)).element
         IN  collect_whole([g EXCEPT !.results = Append(@, At(g.elements, e))], i + 1, ub)

\* the std::transform of query: elements[element_nodes[h].element] for each collected h
RECURSIVE collect(_, _, _)
collect(g, i, ub) ==
    IF g.fault \/ i >= g.query_size THEN g
    ELSE LET h == At(g.last_query, i)
             g0 == Acc(g, "element_nodes", g.element_nodes, g.element_nodes_size, h, ub)
         IN  IF g0.fault THEN g0
             ELSE LET e == At(g.element_nodes, h).element
                      g1 == Acc(g0, "elements", g.elements, g.elements_size, e, ub)
                  IN  IF g1.fault THEN g1
                      ELSE collect([g1 EXCEPT !.results = Append(@, At(g.elements, e))],
                                   i + 1, ub)

\* query(const cell_bounds&, R&)
query(g, cb, ub) ==
    LET g1 == query_cells(g, CellAddrs(cb, cb.y_start), 1, ub)
        g2 == collect(g1, 0, ub)
        g3 == reset_query_set(g2)
    IN  IF g3.fault THEN [g3 EXCEPT !.results = << >>] ELSE g3

\* visit(const cell_bounds&, VisitFunc, user_data): results holds the values
\* VisitFunc was called with, in call order
visit(g, cb, ub) ==
    LET g1 == query_cells(g, CellAddrs(cb, cb.y_start), 1, ub)
        g2 == collect(g1, 0, ub)
    IN  reset_query_set(g2)

\* reserve(int): a vector whose capacity is exceeded moves to new storage, and
\* what the old storage held beyond size() is gone
shrink(v, size) == SubSeq(v, 1, size)
reserve(g, num, moved) ==
    IF ~moved THEN g
    ELSE [g EXCEPT
            !.elements = IF num > Len(@) THEN shrink(@, g.elements_size) ELSE @,
            !.element_nodes = IF num > Len(@) THEN shrink(@, g.element_nodes_size) ELSE @,
            !.cell_nodes = IF NumHeads - 1 + num > Len(@)
                           THEN shrink(@, g.cell_nodes_size) ELSE @]


\* ------------------------------------------------------------- the callers
\* the world bounds the callers use (CellSize 10, 8 addresses):
\*   one cell each, apart:            {5,5,3,3} -> (0,0)   {12,5,3,3} -> (1,0)
\*   straddling four cells:           {9,9,2,2} -> (0..1, 0..1)
\*   a region of six cells:           {0,0,20,10} -> (0..2, 0..1)
\*   a column whose ends share an address: {5,5,3,20} -> (0, 0..2)
EntBounds == { Bounds(5, 5, 3, 3), Bounds(12, 5, 3, 3), Bounds(9, 9, 2, 2),
               Bounds(5, 5, 3, 20) }
QueryBounds == { Bounds(5, 5, 3, 3), Bounds(9, 9, 2, 2), Bounds(0, 0, 20, 10) }

NoBounds == Bounds(0, 0, 0, 0)
\* a call: its name, the value it is about, its bounds and, for update, the old bounds
Op(name, v, b, old) == [op |-> name, v |-> v, b |-> b, old |-> old]

Live == {v \in Values : ents[v] # NoEnt}

Commit(g) ==
    /\ elements' = g.elements
    /\ elements_size' = g.elements_size
    /\ element_nodes' = g.element_nodes
    /\ element_nodes_size' = g.element_nodes_size
    /\ cell_nodes' = g.cell_nodes
    /\ cell_nodes_size' = g.cell_nodes_size
    /\ last_query' = g.last_query
    /\ query_set' = g.query_set
    /\ query_size' = g.query_size
    /\ free_element_nodes' = g.free_element_nodes
    /\ free_cell_nodes' = g.free_cell_nodes
    /\ num_elements' = g.num_elements
    /\ fault' = g.fault
    /\ oor' = g.oor
    /\ ret' = g.ret
    /\ results' = g.results

\* ------------------------------- the grid with fixed cells and an overflow
\* grid<T, CellSize, ZBitWidth, CellDepth>, instantiated with two entities a cell
CellDepth == 2
MaxOvOps == 5
Instances == {1, 2}
OvEnts == 1..MaxOvOps

\* a node as constructed: size{0}, overflow_count{0}; the array entities has no
\* initializer, a slot never assigned holds an indeterminate value (-1 here)
NewNode == [entities |-> [k \in 1..CellDepth |-> -1], size |-> 0, overflow_count |-> 0]

\* the caller does not hold the entity in the instance
NotHeld == Bounds(0, 0, -1, -1)

NoOvOp == [op |-> "grid", g |-> 0, e |-> 0, b |-> NotHeld]

OvInit ==
    /\ nodes = [i \in Instances |-> [a \in 0..(NumHeads - 1) |-> NewNode]]
    /\ global_overflow = << >>
    /\ broken = FALSE
    /\ held = [i \in Instances |-> [e \in OvEnts |-> NotHeld]]
    /\ ovins = 0
    /\ ovops = 0
    /\ ovlast = NoOvOp
    /\ seen = << >>

Init ==
    /\ elements = << >>
    /\ elements_size = 0
    /\ element_nodes = << >>
    /\ element_nodes_size = 0
    /\ cell_nodes = [i \in 1..NumHeads |-> node(-1, -1)]
    /\ cell_nodes_size = NumHeads
    /\ last_query = << >>
    /\ query_set = << >>
    /\ query_size = 0
    /\ free_element_nodes = -1
    /\ free_cell_nodes = -1
    /\ num_elements = 0
    /\ fault = FALSE
    /\ oor = {}
    /\ ents = [v \in Values |-> NoEnt]
    /\ lastop = Op("grid", 0, NoBounds, NoBounds)
    /\ prevop = Op("grid", 0, NoBounds, NoBounds)
    /\ nins = 0
    /\ nops = 0
    /\ ret = -1
    /\ results = << >>
    /\ pure = NoPure
    /\ thr = << >>
    /\ OvInit

\* the outcomes of a call: the checked build differs from the lenient one only
\* when the call makes an out-of-range access
Outcomes(gl, gt) == IF gl.oor = {} THEN {gl} ELSE {gl, gt}

Call == /\ ~fault
        /\ nops < MaxOps
        /\ nops' = nops + 1
        /\ prevop' = lastop
        /\ UNCHANGED << pure, thr, ovvars >>

\* h = grid.insert(v, b)
Insert(v, b) ==
    /\ Call
    /\ v = Val(nins + 1)
    /\ nins' = nins + 1
    /\ LET gl == insert(Grid, v, get_cell_bounds(b), "lenient")
       IN  \E g \in Outcomes(gl, insert(Grid, v, get_cell_bounds(b), "trap")) :
               /\ Commit(g)
               /\ ents' = IF g.fault THEN ents
                          ELSE [ents EXCEPT ![v] = [h |-> g.ret, b |-> b]]
    /\ lastop' = Op("insert", v, b, NoBounds)

\* grid.remove(h, b) with the handle and the bounds the caller holds for v
Remove(v) ==
    /\ Call
    /\ UNCHANGED nins
    /\ ents[v] # NoEnt
    /\ LET cb == get_cell_bounds(ents[v].b)
           gl == remove(Grid, ents[v].h, cb, "lenient")
       IN  \E g \in Outcomes(gl, remove(Grid, ents[v].h, cb, "trap")) :
               /\ Commit(g)
               /\ ents' = IF g.fault THEN ents ELSE [ents EXCEPT ![v] = NoEnt]
    /\ lastop' = Op("remove", v, ents[v].b, NoBounds)

\* grid.update(h, old_b, new_b)
Update(v, b) ==
    /\ Call
    /\ UNCHANGED nins
    /\ ents[v] # NoEnt
    /\ LET old == get_cell_bounds(ents[v].b)
           gl == update(Grid, ents[v].h, old, get_cell_bounds(b), "lenient")
       IN  \E g \in Outcomes(gl, update(Grid, ents[v].h, old, get_cell_bounds(b), "trap")) :
               /\ Commit(g)
               /\ ents' = IF g.fault THEN ents ELSE [ents EXCEPT ![v].b = b]
    /\ lastop' = Op("update", v, b, ents[v].b)

\* grid.query(b, results) into an empty container
Query(b) ==
    /\ Call
    /\ UNCHANGED nins
    /\ LET gl == query(Grid, get_cell_bounds(b), "lenient")
       IN  \E g \in Outcomes(gl, query(Grid, get_cell_bounds(b), "trap")) : Commit(g)
    /\ lastop' = Op("query", 0, b, NoBounds)
    /\ UNCHANGED ents

\* grid.clear(): the caller's handles are gone with it
Clear ==
    /\ Call
    /\ UNCHANGED nins
    /\ Commit(clear(Grid))
    /\ ents' = [v \in Values |-> NoEnt]
    /\ lastop' = Op("clear", 0, NoBounds, NoBounds)

\* grid.reserve(num): moved tells whether the vectors were reallocated
Reserve(num, moved) ==
    /\ Call
    /\ UNCHANGED nins
    /\ moved => reserve(Grid, num, TRUE) # Grid
    /\ Commit(reserve(Grid, num, moved))
    /\ lastop' = Op("reserve", 0, NoBounds, NoBounds)
    /\ UNCHANGED ents

ReserveNums == {4}

Next ==
    \/ \E v \in Values, b \in EntBounds : Insert(v, b)
    \/ \E v \in Values : Remove(v)
    \/ \E v \in Values, b \in EntBounds : Update(v, b)
    \/ \E b \in QueryBounds : Query(b)
    \/ Clear
    \/ \E num \in ReserveNums, moved \in BOOLEAN : Reserve(num, moved)

Spec == Init /\ [][Next]_vars


\* ------------------------------------------------------------ observations
Range(s) == {s[i] : i \in 1..Len(s)}
Count(s, x) == Cardinality({i \in 1..Len(s) : s[i] = x})

CellsOf(b) == LET cb == get_cell_bounds(b)
              IN  (cb.x_start..cb.x_end) \X (cb.y_start..cb.y_end)
AddrsOf(b) == {Address(c[1], c[2]) : c \in CellsOf(b)}
\* the number of cells of b with address a
CellsAt(b, a) == Cardinality({c \in CellsOf(b) : Address(c[1], c[2]) = a})

Heads == 0..(NumHeads - 1)

\* the handles held by the list at a head, in list order, as a walk of the
\* storage finds them; the walk ends at -1, outside the storage, and after Fuel
\* steps
RECURSIVE list_from(_, _)
list_from(n, fuel) ==
    IF ~InStore(cell_nodes, n) \/ fuel = 0 THEN << >>
    ELSE << At(cell_nodes, n).element >> \o list_from(At(cell_nodes, n).next, fuel - 1)
ListOf(a) == list_from(At(cell_nodes, a).next, Len(cell_nodes) + 1)

\* the handles on the element free list
RECURSIVE free_from(_, _)
free_from(n, fuel) ==
    IF ~InStore(element_nodes, n) \/ fuel = 0 THEN {}
    ELSE {n} \cup free_from(At(element_nodes, n).next, fuel - 1)
FreeElements == free_from(free_element_nodes, Len(element_nodes) + 1)

\* the value a query returns for a handle: elements[element_nodes[h].element]
Denotes(h, v) ==
    /\ InStore(element_nodes, h)
    /\ InStore(elements, At(element_nodes, h).element)
    /\ At(elements, At(element_nodes, h).element) = v

IsQuery == lastop.op = "query"


\* ------------------------------------------------------------------ claims

\* C1: round trip.  A query(B) that directly follows h = insert(V, B) returns V,
\* and a query(B) that directly follows remove(h, B) does not return V.
C1_RoundTrip ==
    IsQuery =>
        /\ (prevop.op = "insert" /\ prevop.b = lastop.b) => prevop.v \in Range(results)
        /\ (prevop.op = "remove" /\ prevop.b = lastop.b) => prevop.v \notin Range(results)

\* C2: query(Q) returns exactly the values of the live elements whose cells
\* share an address with the cells of Q, each once, and no other value.
Expected(q) == {v \in Live : AddrsOf(ents[v].b) \cap AddrsOf(q) # {}}
C2_QueryExact ==
    IsQuery => /\ Range(results) = Expected(lastop.b)
               /\ Len(results) = Cardinality(Expected(lastop.b))

\* C3: deduplication.  A value whose bounds span k > 1 cells is returned exactly
\* once by a query over a region that covers all k cells.
C3_Dedup ==
    IsQuery => \A v \in Live :
        (Cardinality(CellsOf(ents[v].b)) > 1 /\ CellsOf(ents[v].b) \subseteq CellsOf(lastop.b))
            => Count(results, v) = 1

\* C4: an element inserted with bounds B is returned by query(Q) whenever the
\* cells of Q contain at least one cell of B.
C4_AnyCellFinds ==
    IsQuery => \A v \in Live :
        CellsOf(ents[v].b) \cap CellsOf(lastop.b) # {} => v \in Range(results)

\* C5: after update(h, old_B, new_B), query(new_B) returns the value inserted
\* under h, query(old_B) does not when the two share no address, and h still
\* denotes that value.
C5_UpdateKeepsHandle ==
    /\ (IsQuery /\ prevop.op = "update") =>
            /\ lastop.b = prevop.b => prevop.v \in Range(results)
            /\ (lastop.b = prevop.old /\ AddrsOf(prevop.old) \cap AddrsOf(prevop.b) = {})
                    => prevop.v \notin Range(results)
    /\ (lastop.op = "update" /\ ~fault) => Denotes(ents[lastop.v].h, lastop.v)

\* C6: a query that directly follows clear() returns an empty collection, for
\* every bounds and whatever calls came before the clear.
C6_ClearThenQueryEmpty ==
    (IsQuery /\ prevop.op = "clear") => (~fault /\ oor = {} /\ results = << >>)

\* C6 witness: a query after a clear that dropped live elements and left both
\* free lists non-empty
C6_Witness ==
    /\ IsQuery /\ prevop.op = "clear" /\ ~fault
    /\ num_elements > 0
    /\ free_cell_nodes # -1 /\ free_element_nodes # -1

\* C7: after clear() both free lists are empty, the arenas hold no element and
\* no ordinary node, and every head slot has next = -1.
C7_ClearResetsAll ==
    lastop.op = "clear" =>
        /\ free_element_nodes = -1
        /\ free_cell_nodes = -1
        /\ elements_size = 0
        /\ element_nodes_size = 0
        /\ cell_nodes_size = NumHeads
        /\ \A a \in Heads : At(cell_nodes, a).next = -1

\* C8: membership.  Between calls (every remove and update being given the
\* bounds the caller holds), the list at address a holds the handle of a live
\* element once for each of its cells with address a, and holds no other handle.
C8_Membership ==
    ~fault => \A a \in Heads :
        /\ \A v \in Live : Count(ListOf(a), ents[v].h) = CellsAt(ents[v].b, a)
        /\ \A h \in Range(ListOf(a)) : \E v \in Live : ents[v].h = h

\* C9: cell_remove(a, h) for a handle h that is not in the list at a makes no
\* out-of-range access and changes nothing.
C9_RemoveAbsentIsNoOp ==
    ~fault => \A v \in Live, a \in Heads, ub \in UB :
        Count(ListOf(a), ents[v].h) = 0 =>
            LET g == cell_remove(Grid, a, ents[v].h, ub)
            IN  /\ g.oor = {}
                /\ ~g.fault
                /\ g.cell_nodes = cell_nodes
                /\ g.free_cell_nodes = free_cell_nodes

\* C10: while the caller holds h, h denotes the value given at its insert, h is
\* not on the element free list, and no other insert has returned h.
C10_HandleStable ==
    ~fault => \A v \in Live :
        /\ Denotes(ents[v].h, v)
        /\ ents[v].h \notin FreeElements
        /\ \A w \in Live : w # v => ents[w].h # ents[v].h

\* ------------------------------------------- callers with mismatched bounds
\* grid.remove(h, b1) with bounds b1 that cover only part of the cells of v
CoversPart(b1, b) == CellsOf(b1) # {} /\ CellsOf(b1) \subseteq CellsOf(b) /\ CellsOf(b1) # CellsOf(b)

RemovePart(v, b1) ==
    /\ Call
    /\ UNCHANGED nins
    /\ ents[v] # NoEnt
    /\ CoversPart(b1, ents[v].b)
    /\ LET gl == remove(Grid, ents[v].h, get_cell_bounds(b1), "lenient")
       IN  \E g \in Outcomes(gl, remove(Grid, ents[v].h, get_cell_bounds(b1), "trap")) :
               /\ Commit(g)
               /\ ents' = IF g.fault THEN ents ELSE [ents EXCEPT ![v] = NoEnt]
    /\ lastop' = Op("remove_part", v, b1, ents[v].b)

NextPart ==
    \/ \E v \in Values, b \in EntBounds : Insert(v, b)
    \/ \E v \in Values : Remove(v)
    \/ \E v \in Values, b1 \in EntBounds : RemovePart(v, b1)
    \/ \E b \in QueryBounds : Query(b)
    \/ Clear

SpecPart == Init /\ [][NextPart]_vars

\* C11: remove(h, B1) with B1 covering only part of the cells of h reports no
\* error, frees the element slot of h (h becomes the head of the element free
\* list) and leaves the nodes holding h in the uncovered cells in place; a query
\* of one uncovered cell that directly follows still returns the entry of slot h
\* (the value stored under h).
Uncovered(b1, b) == CellsOf(b) \ CellsOf(b1)
OneCellOf(q, cells) == Cardinality(CellsOf(q)) = 1 /\ CellsOf(q) \subseteq cells
C11_PartialRemoveOrphans ==
    [][ /\ lastop'.op = "remove_part" =>
            LET h == ents[lastop'.v].h
            IN  /\ ~fault' /\ oor' = {}
                /\ free_element_nodes' = h
                /\ num_elements' = num_elements - 1
                /\ \A a \in Heads :
                       /\ Count(ListOf(a)', h) = Count(ListOf(a), h) - CellsAt(lastop'.b, a)
                       /\ Count(ListOf(a)', h) >= CellsAt(lastop'.old, a) - CellsAt(lastop'.b, a)
        /\ (lastop'.op = "query" /\ lastop.op = "remove_part"
                /\ OneCellOf(lastop'.b, Uncovered(lastop.b, lastop.old)))
            => lastop.v \in Range(results')
      ]_vars

\* every handle a cell list can hold
Handles == 0..(MaxOps - 1)

\* C12: update(h, old_B, new_B) completes, takes h out of every cell of old_B and
\* puts h into every cell of new_B (per address: the occurrences of h change by
\* cells of new_B minus cells of old_B), leaves elements, element_nodes,
\* free_element_nodes and num_elements as they were, and leaves the occurrences
\* of every other handle in every list unchanged.
C12_UpdateFrame ==
    [][ lastop'.op = "update" =>
            LET h == ents[lastop'.v].h
            IN  /\ ~fault'
                /\ elements' = elements /\ elements_size' = elements_size
                /\ element_nodes' = element_nodes /\ element_nodes_size' = element_nodes_size
                /\ free_element_nodes' = free_element_nodes
                /\ num_elements' = num_elements
                /\ \A a \in Heads :
                       /\ Count(ListOf(a)', h) = Count(ListOf(a), h)
                              - CellsAt(lastop'.old, a) + CellsAt(lastop'.b, a)
                       /\ \A k \in Handles \ {h} : Count(ListOf(a)', k) = Count(ListOf(a), k)
      ]_vars

\* --------------------------------------------- functions of no grid state
\* _pdep_u64(src, mask): bit k of src goes to the k-th lowest 1 bit of mask
pdep(src, mask) == {m \in mask : Cardinality({j \in mask : j < m}) \in src}
MaskA == {i \in 0..63 : i % 2 = 1}

\* a deposit with the two masks exchanged
interleave_pdep_swapped(x, y) == pdep(y, Mask1) \cup pdep(x, MaskA)

\* interleave of the build with PDEP_AVAILABLE
interleave_pdep(x, y) == pdep(y, MaskA) \cup pdep(x, Mask1)

\* the cell coordinates tried: small ones, ones using the high half-word and
\* the sign bit, negative ones
ZCoords == {0, 1, 2, 3, 5, 255, 65535, 65536, 2147483647, -1, -2, -65536, -2147483647 - 1}
Builds == {"portable", "pdep"}

\* one call of a function per behaviour
PureCall == /\ pure = NoPure
            /\ UNCHANGED << gridvars, fault, oor, ents, lastop, prevop, nins, nops, ret,
                            results, thr, ovvars >>

\* interleave(x, y) as the given build compiles it
Interleave(x, y, build) ==
    /\ PureCall
    /\ pure' = [fn |-> "interleave", arg |-> [x |-> x, y |-> y, build |-> build],
                val |-> IF build = "pdep" THEN interleave_pdep(Bits32(x), Bits32(y))
                        ELSE interleave(Bits32(x), Bits32(y))]

\* z_order(x, y) on int arguments
ZOrder(x, y) ==
    /\ PureCall
    /\ pure' = [fn |-> "z_order", arg |-> [x |-> x, y |-> y], val |-> z_order(x, y)]

\* the world bounds tried: corners left of, on and right of cell borders, of
\* either sign, with zero, small, large and negative extents
PureCorners == {-25, -10, -1, 0, 9, 10}
PureExtents == {-15, 0, 1, 15}
PureBounds == {Bounds(x, y, w, h) : x \in PureCorners, y \in PureCorners,
                                    w \in PureExtents, h \in PureExtents}

\* get_cell_bounds(b)
GetCellBounds(b) ==
    /\ PureCall
    /\ pure' = [fn |-> "get_cell_bounds", arg |-> b, val |-> get_cell_bounds(b)]

NextPure ==
    \/ \E x \in ZCoords, y \in ZCoords, build \in Builds : Interleave(x, y, build)
    \/ \E x \in ZCoords, y \in ZCoords : ZOrder(x, y)
    \/ \E b \in PureBounds : GetCellBounds(b)

SpecPure == Init /\ [][NextPure]_vars

\* C13: for every pair of 32-bit coordinates the portable interleave and the
\* pdep interleave return the same 64-bit word, hence the same masked address.
C13_InterleaveAgree ==
    pure.fn = "interleave" =>
        LET x == Bits32(pure.arg.x)
            y == Bits32(pure.arg.y)
        IN  /\ pure.val = interleave(x, y)
            /\ pure.val = interleave_pdep(x, y)
            /\ interleave(x, y) \cap wrapping_bit_mask = interleave_pdep(x, y) \cap wrapping_bit_mask

\* C13 witness: the pdep build interleaved a negative x and a y with a bit in
\* the high half-word
C13_Witness ==
    /\ pure.fn = "interleave" /\ pure.arg.build = "pdep"
    /\ pure.arg.x < 0 /\ pure.arg.y = 65536
    /\ 63 \notin pure.val /\ 62 \in pure.val /\ 33 \in pure.val

\* C14: z_order(x, y) is the Morton code of (x, y) modulo 2^ZBitWidth: bit i of
\* x (as an unsigned 32-bit pattern) at bit 2i, bit i of y at bit 2i+1, only the
\* low ZBitWidth bits kept.
Morton(x, y) == {2 * i : i \in Bits32(x)} \cup {2 * i + 1 : i \in Bits32(y)}
C14_ZOrderIsMorton ==
    pure.fn = "z_order" =>
        /\ NatBits(pure.val, 0) = {i \in Morton(pure.arg.x, pure.arg.y) : i < ZBitWidth}
        /\ pure.val = BitsNat(Morton(pure.arg.x, pure.arg.y)
                                  \cap (0..(ZBitWidth - 1))) % Pow2(ZBitWidth)

\* C14 witness: a negative x and a positive odd y gave an address with the bits
\* of both
C14_Witness ==
    /\ pure.fn = "z_order" /\ pure.arg.x = -2 /\ pure.arg.y = 5
    /\ pure.val = 6

\* C15: for every pair of int cell coordinates, negative and huge ones included,
\* z_order returns an address in [0, 2^ZBitWidth), the index of a head slot
\* inside cell_nodes.
C15_AddressInHeads ==
    pure.fn = "z_order" =>
        /\ pure.val >= 0 /\ pure.val < Pow2(ZBitWidth)
        /\ pure.val \in Heads
        /\ pure.val < cell_nodes_size /\ InStore(cell_nodes, pure.val)

\* C15 witness: an address computed from coordinates far outside any world
C15_Witness ==
    /\ pure.fn = "z_order" /\ pure.arg.x = -1 /\ pure.arg.y = -2147483647 - 1
    /\ pure.val = 5 /\ cell_nodes_size = NumHeads

\* C16: get_cell_bounds returns x / CellSize, y / CellSize, (x + w) / CellSize,
\* (y + h) / CellSize, each quotient rounded towards zero and not clamped; for
\* w >= 0 and h >= 0 the start cells are not beyond the end cells, and a
\* zero-area bounds maps to exactly one cell.
\* q is a / CellSize rounded towards zero
IsTruncQuot(a, q) ==
    LET r == a - q * CellSize
    IN  IF a >= 0 THEN r >= 0 /\ r < CellSize ELSE r <= 0 /\ r > -CellSize
C16_CellBounds ==
    pure.fn = "get_cell_bounds" =>
        LET b == pure.arg
            c == pure.val
        IN  /\ IsTruncQuot(b.x, c.x_start) /\ IsTruncQuot(b.y, c.y_start)
            /\ IsTruncQuot(b.x + b.w, c.x_end) /\ IsTruncQuot(b.y + b.h, c.y_end)
            /\ (b.w >= 0 /\ b.h >= 0) => (c.x_start <= c.x_end /\ c.y_start <= c.y_end)
            /\ (b.w = 0 /\ b.h = 0) => (c.x_start = c.x_end /\ c.y_start = c.y_end)

\* C16 witness: a zero-area bounds at negative coordinates, one of them inside
\* the cell that also holds 0
C16_Witness ==
    /\ pure.fn = "get_cell_bounds"
    /\ pure.arg = Bounds(-1, -25, 0, 0)
    /\ pure.val = CellBounds(0, 0, -2, -2)

\* ------------------------------------------------- callers that also visit
\* grid.visit(b, VisitFunc, user_data) with a VisitFunc that records its argument
Visit(b) ==
    /\ Call
    /\ UNCHANGED nins
    /\ LET gl == visit(Grid, get_cell_bounds(b), "lenient")
       IN  \E g \in Outcomes(gl, visit(Grid, get_cell_bounds(b), "trap")) : Commit(g)
    /\ lastop' = Op("visit", 0, b, NoBounds)
    /\ UNCHANGED ents

NextVisit ==
    \/ \E v \in Values, b \in EntBounds : Insert(v, b)
    \/ \E v \in Values : Remove(v)
    \/ \E b \in QueryBounds : Query(b)
    \/ \E b \in QueryBounds : Visit(b)
    \/ Clear

SpecVisit == Init /\ [][NextVisit]_vars

\* C17: whenever a query or a visit has returned, query_size is 0 and no
\* query_set marker is set; so what the next query returns is what it returns
\* from the same index with a fresh scratch state, whatever was queried before.
FreshScratch(g) == [g EXCEPT !.query_size = 0,
                             !.query_set = [i \in DOMAIN @ |-> FALSE]]
C17_ScratchReset ==
    ~fault =>
        /\ query_size = 0
        /\ \A i \in DOMAIN query_set : ~query_set[i]
        /\ lastop.op \in {"query", "visit"} =>
               \A q \in QueryBounds, ub \in UB :
                   query(Grid, get_cell_bounds(q), ub).results
                       = query(FreshScratch(Grid), get_cell_bounds(q), ub).results

\* C17 witness: a visit that reported two elements, one of them met in several
\* cells, has returned
C17_Witness ==
    /\ lastop.op = "visit" /\ ~fault
    /\ Len(results) = 2
    /\ \E v \in Live : Cardinality(CellsOf(ents[v].b)) > 1 /\ v \in Range(results)
    /\ Len(query_set) >= 2

\* C18: in every reachable state cell_nodes.size() >= 2^ZBitWidth, so the
\* assertions cell_nodes.size() > 0 at the entry of insert, remove, update,
\* query and visit hold.
C18_GridPrepared ==
    /\ cell_nodes_size >= Pow2(ZBitWidth)
    /\ cell_nodes_size > 0
    /\ Len(cell_nodes) >= cell_nodes_size

\* C18 witness: a clear() has just shrunk cell_nodes back to the head region
C18_Witness ==
    /\ lastop.op = "clear" /\ prevop.op = "insert"
    /\ cell_nodes_size = NumHeads
    /\ Len(cell_nodes) > NumHeads

\* the nodes on the node free list, as a walk of the storage finds them
RECURSIVE free_cells_from(_, _)
free_cells_from(n, fuel) ==
    IF ~InStore(cell_nodes, n) \/ fuel = 0 THEN {}
    ELSE {n} \cup free_cells_from(At(cell_nodes, n).next, fuel - 1)
FreeCells == free_cells_from(free_cell_nodes, Len(cell_nodes) + 1)

\* C19: the first 2^ZBitWidth slots of cell_nodes are permanent list heads: no
\* head index is on the node free list, no head index is the next of any node,
\* a head slot never stores a handle, and the node cell_insert takes next (the
\* head of the free list, or else the slot at size()) is not a head slot.
C19_HeadsPermanent ==
    /\ free_cell_nodes \notin Heads
    /\ FreeCells \cap Heads = {}
    /\ \A i \in 0..(Len(cell_nodes) - 1) : At(cell_nodes, i).next \notin Heads
    /\ \A a \in Heads : At(cell_nodes, a).element = -1
    /\ cell_nodes_size \notin Heads

\* C19 witness: nodes are in lists and on the free list, and a removed node was
\* reused by a later insert
C19_Witness ==
    /\ ~fault /\ oor = {}
    /\ lastop.op = "insert" /\ prevop.op \in {"remove", "update"}
    /\ FreeCells # {}
    /\ \E a \in Heads : Len(ListOf(a)) >= 2

\* ------------------------------------------- two threads querying one grid
\* The grid has no lock and its scratch state (last_query, query_set,
\* query_size) is a member of the grid, so two threads inside query() work on
\* the same scratch.  A thread's steps are the statements of query() and of
\* cell_query(); each step reads and writes the members as the statement does.
Threads == {1, 2}

\* grid(): the state after construction
NewGrid == [elements |-> << >>, elements_size |-> 0,
            element_nodes |-> << >>, element_nodes_size |-> 0,
            cell_nodes |-> [i \in 1..NumHeads |-> node(-1, -1)],
            cell_nodes_size |-> NumHeads,
            last_query |-> << >>, query_set |-> << >>, query_size |-> 0,
            free_element_nodes |-> -1, free_cell_nodes |-> -1, num_elements |-> 0,
            fault |-> FALSE, oor |-> {}, ret |-> -1, results |-> << >>]

\* the inserts made before the threads start: << value, bounds >> in call order
Populations ==
    { << << Val(1), Bounds(5, 5, 3, 3) >>, << Val(2), Bounds(12, 5, 3, 3) >> >>,
      << << Val(3), Bounds(12, 5, 3, 3) >>, << Val(1), Bounds(5, 5, 8, 3) >>,
         << Val(2), Bounds(5, 5, 3, 3) >> >> }

ThreadBounds == QueryBounds \cup { Bounds(12, 5, 3, 3) }

RECURSIVE populate(_, _)
populate(g, ins) ==
    IF ins = << >> THEN g
    ELSE CHOOSE r \in { populate(h, Tail(ins)) :
                          h \in { insert(g, Head(ins)[1], get_cell_bounds(Head(ins)[2]),
                                         "trap") } } : TRUE

\* a thread that has not called query(b) yet; alone is what query(b) returns
\* on this grid when no other thread runs
Idle(g, b) ==
    LET cb == get_cell_bounds(b)
    IN  [pc |-> "idle", b |-> b, cells |-> << >>, ci |-> 1, cur |-> -1,
         elem |-> -1, cond |-> 0, res |-> << >>,
         alone |-> query(g, cb, "trap").results, mixed |-> FALSE]

InitConc ==
    \E p \in Populations : \E b1 \in ThreadBounds : \E b2 \in ThreadBounds :
        \E g \in { populate(NewGrid, p) } :
            /\ elements = g.elements
            /\ elements_size = g.elements_size
            /\ element_nodes = g.element_nodes
            /\ element_nodes_size = g.element_nodes_size
            /\ cell_nodes = g.cell_nodes
            /\ cell_nodes_size = g.cell_nodes_size
            /\ last_query = g.last_query
            /\ query_set = g.query_set
            /\ query_size = g.query_size
            /\ free_element_nodes = g.free_element_nodes
            /\ free_cell_nodes = g.free_cell_nodes
            /\ num_elements = g.num_elements
            /\ fault = g.fault
            /\ oor = g.oor
            /\ ents = [v \in Values |->
                        IF \E i \in 1..Len(p) : p[i][1] = v
                        THEN [h |-> CHOOSE h \in 0..(g.element_nodes_size - 1) :
                                      At(g.elements, At(g.element_nodes, h).element) = v,
                              b |-> p[CHOOSE i \in 1..Len(p) : p[i][1] = v][2]]
                        ELSE NoEnt]
            /\ lastop = Op("insert", p[Len(p)][1], p[Len(p)][2], NoBounds)
            /\ prevop = Op("grid", 0, NoBounds, NoBounds)
            /\ nins = Len(p)
            /\ nops = Len(p)
            /\ ret = -1
            /\ results = << >>
            /\ pure = NoPure
            /\ thr = [t \in Threads |-> Idle(g, IF t = 1 THEN b1 ELSE b2)]
            /\ OvInit

Active(th) == th.pc \notin {"idle", "done"}

\* thread t moves to th and the grid to g; threads that are inside query() at
\* the same time are marked as having overlapped another query
Step(t, th, g) ==
    /\ ~fault
    /\ LET new == [thr EXCEPT ![t] = th]
           both == Cardinality({u \in Threads : Active(new[u])}) > 1
       IN  thr' = [u \in Threads |->
                    IF both /\ Active(new[u]) THEN [new[u] EXCEPT !.mixed = TRUE]
                    ELSE new[u]]
    /\ elements' = g.elements
    /\ elements_size' = g.elements_size
    /\ element_nodes' = g.element_nodes
    /\ element_nodes_size' = g.element_nodes_size
    /\ cell_nodes' = g.cell_nodes
    /\ cell_nodes_size' = g.cell_nodes_size
    /\ last_query' = g.last_query
    /\ query_set' = g.query_set
    /\ query_size' = g.query_size
    /\ free_element_nodes' = g.free_element_nodes
    /\ free_cell_nodes' = g.free_cell_nodes
    /\ num_elements' = g.num_elements
    /\ fault' = g.fault
    /\ oor' = g.oor
    /\ UNCHANGED << ents, lastop, prevop, nins, nops, ret, results, pure, ovvars >>

\* query(const bounds&, R&): the cells to visit
QueryBegin(t) ==
    /\ thr[t].pc = "idle"
    /\ LET cb == get_cell_bounds(thr[t].b)
       IN  Step(t, [thr[t] EXCEPT !.pc = "cell", !.cells = CellAddrs(cb, cb.y_start),
                                  !.ci = 1],
                Grid)

\* the two for loops of query(const cell_bounds&, R&) and the first statement
\* of cell_query: current_node = cell_nodes[cell_node].next
QueryCell(t) ==
    /\ thr[t].pc = "cell"
    /\ LET th == thr[t]
       IN  IF th.ci > Len(th.cells)
           THEN Step(t, [th EXCEPT !.pc = "copy"], Grid)
           ELSE Step(t, [th EXCEPT !.pc = "loop", !.ci = @ + 1,
                                   !.cur = At(cell_nodes, th.cells[th.ci]).next],
                     Grid)

\* the loop test of cell_query and the body up to
\* last_query[query_size] = current_element
QueryNode(t) ==
    /\ thr[t].pc = "loop"
    /\ LET th == thr[t]
       IN  IF th.cur = -1 THEN Step(t, [th EXCEPT !.pc = "cell"], Grid)
           ELSE
           LET current_element == At(cell_nodes, th.cur).element
               condition == IF At(query_set, current_element) THEN 0 ELSE 1
               inside == query_size >= 0 /\ query_size < Len(last_query)
           IN  \E ub \in UB :
               IF inside
               THEN Step(t, [th EXCEPT !.pc = "bump", !.elem = current_element,
                                       !.cond = condition],
                         [Grid EXCEPT !.last_query = Put(@, query_size, current_element)])
               ELSE Step(t, [th EXCEPT !.pc = "bump", !.elem = current_element,
                                       !.cond = condition],
                         [Grid EXCEPT !.oor = {<< "last_query", query_size >>},
                                      !.fault = (ub = "trap") \/ condition = 1])

\* the rest of the body: query_size += condition; query_set[current_element] =
\* true; current_node = cell_nodes[current_node].next
QueryBump(t) ==
    /\ thr[t].pc = "bump"
    /\ LET th == thr[t]
       IN  Step(t, [th EXCEPT !.pc = "loop", !.cur = At(cell_nodes, th.cur).next],
                [Grid EXCEPT !.query_size = @ + th.cond,
                             !.query_set = Put(@, th.elem, TRUE)])

\* the span last_query[0, query_size) lies inside the vector
SpanInside == query_size <= Len(last_query)

\* the std::transform of query over the span
QueryCopy(t) ==
    /\ thr[t].pc = "copy"
    /\ IF SpanInside
       THEN LET g == collect(Grid, 0, "trap")
            IN  Step(t, [thr[t] EXCEPT !.pc = "reset", !.res = g.results],
                     [g EXCEPT !.results = << >>])
       ELSE Step(t, thr[t], [Grid EXCEPT !.oor = {<< "last_query", Len(last_query) >>},
                                         !.fault = TRUE])

\* reset_query_set() and the return
QueryReset(t) ==
    /\ thr[t].pc = "reset"
    /\ IF SpanInside
       THEN Step(t, [thr[t] EXCEPT !.pc = "done"], reset_query_set(Grid))
       ELSE Step(t, thr[t], [Grid EXCEPT !.oor = {<< "last_query", Len(last_query) >>},
                                         !.fault = TRUE])

NextConc ==
    \/ \E t \in Threads : QueryBegin(t)
    \/ \E t \in Threads : QueryCell(t)
    \/ \E t \in Threads : QueryNode(t)
    \/ \E t \in Threads : QueryBump(t)
    \/ \E t \in Threads : QueryCopy(t)
    \/ \E t \in Threads : QueryReset(t)

SpecConc == InitConc /\ [][NextConc]_vars

Returned(t) == thr # << >> /\ thr[t].pc = "done"

\* C20: two queries of one grid instance share last_query, query_set and
\* query_size.  A query that returns something else than it returns when it
\* runs alone is a query that was inside query() together with another one;
\* C20_Witness is the state the claim names, where one query returned an
\* element only the other query's region holds and the other query missed an
\* element of its own region.
C20_SharedScratch ==
    \A t \in Threads :
        (Returned(t) /\ thr[t].res # thr[t].alone) => thr[t].mixed

C20_Witness ==
    /\ ~fault
    /\ \E t \in Threads : \E u \in Threads \ {t} :
        /\ Returned(t) /\ Returned(u)
        /\ \E v \in Range(thr[t].res) :
              v \notin Range(thr[t].alone) /\ v \in Range(thr[u].alone)
        /\ \E v \in Range(thr[u].alone) : v \notin Range(thr[u].res)

\* ------------------------------------------------- the width of the address
\* wrapping_bit_mask{(1 << ZBitWidth) - 1}: the literal 1 is an int, so the
\* shift and the subtraction are done on IntWidth bits and the result is then
\* converted to uint64_t.  An int is the set of the positions of the 1 bits of
\* its two's complement pattern.  A shift by IntWidth or more and a signed
\* overflow are undefined; in this initializer, which must be a constant
\* expression, the build either rejects them (built = FALSE) or, when told to
\* permit them, produces one of the values below.
SizeTBits == 64
IntWidth == 32

\* requires (ZBitWidth <= sizeof(size_t)*8)
ZWidths == 0..SizeTBits

\* 1 << z
shl_one(z) ==
    IF z < IntWidth THEN { [ub |-> FALSE, built |-> TRUE, bits |-> {z}] }
    ELSE { [ub |-> TRUE, built |-> FALSE, bits |-> {}],
           \* the shift count taken modulo the width, as the shift instruction does
           [ub |-> TRUE, built |-> TRUE, bits |-> {z % IntWidth}],
           \* the bit shifted out of the word
           [ub |-> TRUE, built |-> TRUE, bits |-> {}] }

\* r - 1
minus_one(r) ==
    IF ~r.built THEN { r }
    ELSE IF r.bits = {} THEN { [r EXCEPT !.bits = 0..(IntWidth - 1)] }
    ELSE IF r.bits = {IntWidth - 1}
         \* INT_MIN - 1 overflows: rejected, or wrapped to INT_MAX
         THEN { [r EXCEPT !.ub = TRUE, !.built = FALSE, !.bits = {}],
                [r EXCEPT !.ub = TRUE, !.bits = 0..(IntWidth - 2)] }
    ELSE LET k == CHOOSE i \in r.bits : TRUE IN { [r EXCEPT !.bits = 0..(k - 1)] }

\* int -> uint64_t: sign extension
int_to_u64(bits) ==
    IF (IntWidth - 1) \in bits THEN bits \cup (IntWidth..(SizeTBits - 1)) ELSE bits

\* uint64_t -> int: the low IntWidth bits
u64_to_int(bits) == bits \cap (0..(IntWidth - 1))

\* w + 1 on uint64_t
Inc64(w) ==
    LET k == CHOOSE i \in 0..SizeTBits : i \notin w /\ (0..(i - 1)) \subseteq w
    IN  ((w \ (0..(k - 1))) \cup {k}) \cap (0..(SizeTBits - 1))

\* the outcomes of the initializer for a grid instantiated with ZBitWidth = z:
\* the mask, the number of head slots (wrapping_bit_mask + 1) and the largest
\* address as cell_insert, cell_remove and cell_query receive it (int cell_node)
mask_outcomes(z) ==
    { [ub |-> r.ub, built |-> r.built,
       mask |-> int_to_u64(r.bits),
       heads |-> IF r.built THEN Inc64(int_to_u64(r.bits)) ELSE {},
       cell_node |-> int_to_u64(u64_to_int(int_to_u64(r.bits)))] :
      r \in UNION { minus_one(s) : s \in shl_one(z) } }

Instantiate(z, o) ==
    /\ PureCall
    /\ pure' = [fn |-> "wrapping_bit_mask", arg |-> [z |-> z], val |-> o]

NextWidth == \E z \in ZWidths : \E o \in mask_outcomes(z) : Instantiate(z, o)

SpecWidth == Init /\ [][NextWidth]_vars

\* C21: for every ZBitWidth the requires-clause admits, the initializer of
\* wrapping_bit_mask neither overflows nor shifts out of range, the mask is
\* 2^ZBitWidth - 1 (bits 0 .. ZBitWidth - 1), the head region has 2^ZBitWidth
\* slots, and the largest address keeps its value as an int argument.
C21_MaskAllWidths ==
    pure.fn = "wrapping_bit_mask" =>
        /\ ~pure.val.ub /\ pure.val.built
        /\ pure.val.mask = 0..(pure.arg.z - 1)
        /\ pure.val.heads = {pure.arg.z}
        /\ pure.val.cell_node = pure.val.mask

\* ------------------------------------------------------------ memory use
NumCells(b) == Cardinality(CellsOf(b))

\* the cell memberships the caller's entities e hold: one per covered cell
RECURSIVE SumCells(_, _)
SumCells(e, S) ==
    IF S = {} THEN 0
    ELSE LET v == CHOOSE x \in S : TRUE
         IN  NumCells(e[v].b) + SumCells(e, S \ {v})
Memberships == SumCells(ents, Live)

\* the slots of each arena that are on its free list
FreeElementSlots == FreeElements \cap (0..(element_nodes_size - 1))
FreeCellSlots == FreeCells \cap (0..(cell_nodes_size - 1))

\* C22: memory stays stable.  No insert fails or indexes an arena out of range.
\* An arena grows only when its free list is empty (element_insert appends one
\* slot only with an empty free list; after a call that appended cell nodes the
\* node free list is empty), and every slot is either in use or on the free
\* list (element_nodes.size() = live elements + free handles, cell_nodes.size()
\* - 2^ZBitWidth = cell memberships + free nodes): so a size only grows when
\* the number in use exceeds the size, and never exceeds the largest number in
\* use at one time.  An insert that directly follows a remove and covers no
\* more cells leaves both sizes as they were.
C22_StableMemory ==
    [][ /\ lastop'.op = "insert" => ~fault' /\ oor' = {}
        /\ ~fault' =>
            /\ element_nodes_size' > element_nodes_size =>
                  free_element_nodes = -1 /\ element_nodes_size' = element_nodes_size + 1
            /\ cell_nodes_size' > cell_nodes_size => free_cell_nodes' = -1
            /\ element_nodes_size' = Cardinality(Live') + Cardinality(FreeElementSlots')
            /\ cell_nodes_size' - NumHeads = Memberships' + Cardinality(FreeCellSlots')
        /\ (lastop.op = "remove" /\ lastop'.op = "insert" /\ ~fault'
              /\ NumCells(lastop'.b) <= NumCells(lastop.b)) =>
                  /\ element_nodes_size' = element_nodes_size
                  /\ cell_nodes_size' = cell_nodes_size
      ]_vars

\* ---------------------------------------------------------------- reserve
\* what the grid's operations can read of g: each vector up to its size, the
\* free-list heads, the counters and the scratch state, and what the last call
\* returned
Obs(g) == [elements |-> SubSeq(g.elements, 1, g.elements_size),
           element_nodes |-> SubSeq(g.element_nodes, 1, g.element_nodes_size),
           cell_nodes |-> SubSeq(g.cell_nodes, 1, g.cell_nodes_size),
           last_query |-> g.last_query, query_set |-> g.query_set,
           query_size |-> g.query_size,
           free_element_nodes |-> g.free_element_nodes,
           free_cell_nodes |-> g.free_cell_nodes,
           num_elements |-> g.num_elements,
           ret |-> g.ret, results |-> g.results]

\* two outcomes a caller cannot tell apart
Same(a, r) == a.fault = r.fault /\ (~a.fault => Obs(a) = Obs(r))

\* every call the caller can make next returns the same on g and on r and
\* leaves the same observable state
SameCalls(g, r, ub) ==
    /\ \A b \in EntBounds :
          Same(insert(g, Val(nins + 1), get_cell_bounds(b), ub),
               insert(r, Val(nins + 1), get_cell_bounds(b), ub))
    /\ \A v \in Live :
          /\ Same(remove(g, ents[v].h, get_cell_bounds(ents[v].b), ub),
                  remove(r, ents[v].h, get_cell_bounds(ents[v].b), ub))
          /\ \A b \in EntBounds :
                Same(update(g, ents[v].h, get_cell_bounds(ents[v].b), get_cell_bounds(b), ub),
                     update(r, ents[v].h, get_cell_bounds(ents[v].b), get_cell_bounds(b), ub))
    /\ \A q \in QueryBounds :
          Same(query(g, get_cell_bounds(q), ub), query(r, get_cell_bounds(q), ub))
    /\ Same(clear(g), clear(r))

\* the capacities asked for: those of the callers and one above every size
ReserveAsked == ReserveNums \cup {64}

\* C23: reserve(n) changes no observable state (every vector up to its size,
\* hence every cell list and the element arena, both free-list heads,
\* num_elements and the scratch state are as before), and every call made
\* after it returns what it returns without the reserve and leaves the same
\* observable state.
C23_ReserveUnobservable ==
    ~fault =>
        \A num \in ReserveAsked : \A r \in { reserve(Grid, num, TRUE) } :
            /\ Same(Grid, r)
            /\ r # Grid => \A ub \in UB : SameCalls(Grid, r, ub)

\* ------------------------------------------------------- the element arena
\* C24: element arena allocation.  With a non-empty element free list,
\* element_insert returns the handle at its head, advances the head to that
\* slot's next, overwrites that slot's value and appends nothing; with an empty
\* free list it appends one slot and returns the previous element_nodes.size().
\* The head of the free list is the handle of the most recent remove.
C24_ElementAllocation ==
    [][ /\ ~fault =>
            \A ub \in UB : \A g \in { element_insert(Grid, Val(nins + 1), ub) } :
                /\ ~g.fault /\ g.oor = {}
                /\ At(g.elements, At(g.element_nodes, g.ret).element) = Val(nins + 1)
                /\ IF free_element_nodes # -1
                   THEN /\ g.ret = free_element_nodes
                        /\ g.free_element_nodes = At(element_nodes, free_element_nodes).next
                        /\ g.element_nodes = element_nodes
                        /\ g.element_nodes_size = element_nodes_size
                        /\ g.elements_size = elements_size
                   ELSE /\ g.ret = element_nodes_size
                        /\ g.element_nodes_size = element_nodes_size + 1
                        /\ g.elements_size = elements_size + 1
                        /\ g.free_element_nodes = -1
        /\ (lastop'.op = "remove" /\ ~fault') =>
              free_element_nodes' = ents[lastop'.v].h
        /\ (lastop'.op = "insert" /\ ~fault') =>
              ret' = (IF free_element_nodes # -1 THEN free_element_nodes
                      ELSE element_nodes_size)
      ]_vars

\* ------------------------------------------------------- the cell node arena
\* the handles of the list at head a in the grid value g
RECURSIVE list_in(_, _, _)
list_in(cn, n, fuel) ==
    IF ~InStore(cn, n) \/ fuel = 0 THEN << >>
    ELSE << At(cn, n).element >> \o list_in(cn, At(cn, n).next, fuel - 1)
ListIn(g, a) == list_in(g.cell_nodes, At(g.cell_nodes, a).next, Len(g.cell_nodes) + 1)

\* C25: cell_insert(a, h) puts h at the front of the list at a: afterwards
\* head.next is a node that stores h and whose next is the node that was first
\* before, the list is h followed by the old list, and no other node changes.
\* The node is the head of the free list when there is one (the free list then
\* advances to that node's old next and nothing is appended) and else a new
\* node at the old size(); the list contents are the same in both branches.
C25_CellInsertFront ==
    ~fault =>
        \A a \in Heads : \A h \in Handles : \A ub \in UB :
        \A g \in { cell_insert(Grid, a, h, ub) } :
            /\ ~g.fault /\ g.oor = {}
            /\ \A n \in { At(g.cell_nodes, a).next } :
                /\ n = (IF free_cell_nodes # -1 THEN free_cell_nodes ELSE cell_nodes_size)
                /\ At(g.cell_nodes, n) = node(h, At(cell_nodes, a).next)
                /\ \A i \in 0..(Len(cell_nodes) - 1) :
                      i \notin {a, n} => At(g.cell_nodes, i) = At(cell_nodes, i)
            /\ At(g.cell_nodes, a).element = -1
            /\ ListIn(g, a) = << h >> \o ListOf(a)
            /\ IF free_cell_nodes # -1
               THEN /\ g.free_cell_nodes = At(cell_nodes, free_cell_nodes).next
                    /\ g.cell_nodes_size = cell_nodes_size
               ELSE /\ g.free_cell_nodes = -1
                    /\ g.cell_nodes_size = cell_nodes_size + 1

\* the list s without the occurrences of h, in order
RECURSIVE Without(_, _)
Without(s, h) ==
    IF s = << >> THEN << >>
    ELSE (IF Head(s) = h THEN << >> ELSE << Head(s) >>) \o Without(Tail(s), h)

\* C26: remove(h, B) with the bounds h was inserted with completes without an
\* out-of-range access; per address it unlinks one node holding h for each
\* covered cell with that address and pushes each unlinked node on the node
\* free list (whose head is then a node that held h); in every list the other
\* handles and their order are unchanged, and every other live element keeps
\* its value.
C26_RemoveFrame ==
    [][ lastop'.op = "remove" =>
            LET h == ents[lastop'.v].h
            IN  /\ ~fault' /\ oor' = {}
                /\ \A a \in Heads :
                      /\ Count(ListOf(a)', h) = Count(ListOf(a), h) - CellsAt(lastop'.b, a)
                      /\ Without(ListOf(a)', h) = Without(ListOf(a), h)
                /\ Cardinality(FreeCells') = Cardinality(FreeCells) + NumCells(lastop'.b)
                /\ FreeCells \subseteq FreeCells'
                /\ free_cell_nodes' \in FreeCells' \ FreeCells
                /\ \A n \in FreeCells' \ FreeCells : At(cell_nodes, n).element = h
                /\ \A w \in Live \ {lastop'.v} : Denotes(ents[w].h, w)'
      ]_vars

\* ----------------------------------------------------- the walk of a list
\* the node indices the walk of cell_query reaches from the head at a, the
\* terminating -1 and an index outside the vector included
RECURSIVE walk_from(_, _)
walk_from(n, fuel) ==
    IF n = -1 \/ n >= cell_nodes_size \/ ~InStore(cell_nodes, n) \/ fuel = 0 THEN {n}
    ELSE {n} \cup walk_from(At(cell_nodes, n).next, fuel - 1)
WalkOf(a) == walk_from(At(cell_nodes, a).next, Len(cell_nodes) + 1)

\* C27: the assertion of cell_query holds in every reachable state: every node
\* index reached by walking a cell list from its head is -1 or an index below
\* cell_nodes.size().
C27_WalkInRange ==
    ~fault => \A a \in Heads : \A n \in WalkOf(a) :
        n = -1 \/ (n >= 0 /\ n < cell_nodes_size)

\* ------------------------------------------------- a cleared grid and a new one
\* where the call on the new grid r is defined, the call on g indexed none of
\* elements, element_nodes and cell_nodes out of range, completed, and returned
\* what r returned
Returns(g, r) ==
    (~r.fault /\ r.oor = {}) =>
        /\ \A o \in g.oor : o[1] \notin {"elements", "element_nodes", "cell_nodes"}
        /\ ~g.fault
        /\ g.ret = r.ret /\ g.results = r.results

\* C28: a cleared grid behaves like a newly constructed one.  Whatever calls
\* came before the clear(), an insert made next returns the handle a new grid
\* returns, a query made next or after that insert returns what it returns on
\* a new grid, and none of these calls indexes elements, element_nodes or
\* cell_nodes out of range.
C28_ClearedIsFresh ==
    (lastop.op = "clear" /\ ~fault) =>
        \A ub \in UB :
            /\ \A q \in QueryBounds :
                  Returns(query(Grid, get_cell_bounds(q), ub),
                          query(NewGrid, get_cell_bounds(q), ub))
            /\ \A b \in EntBounds :
               \A g \in { insert(Grid, Val(nins + 1), get_cell_bounds(b), ub) } :
               \A r \in { insert(NewGrid, Val(nins + 1), get_cell_bounds(b), ub) } :
                  /\ Returns(g, r)
                  /\ \A q \in QueryBounds :
                        Returns(query(g, get_cell_bounds(q), ub),
                                query(r, get_cell_bounds(q), ub))

\* ------------------------------------------------------ the query scratch
\* C29: while a query result is built, every write last_query[query_size] of
\* cell_query is at an index below last_query.size(), the write made for a
\* handle that is already marked included.
C29_QueryWriteInRange ==
    lastop.op = "query" => \A o \in oor : o[1] # "last_query"

\* C30: query_set and last_query are large enough for every issued handle:
\* query_set.size() >= element_nodes.size() and last_query has the same size,
\* so query_set[h] is in range for every handle h stored in a cell list,
\* although the two vectors are sized by num_elements and handles are reused.
C30_ScratchCoversHandles ==
    ~fault =>
        /\ Len(query_set) >= element_nodes_size
        /\ Len(last_query) = Len(query_set)
        /\ \A a \in Heads : \A h \in Range(ListOf(a)) : h >= 0 /\ h < Len(query_set)

\* C30 witness: an insert that reused a handle from the free list while fewer
\* elements are live than the handle's index, so that query_set[h] is in range
\* only because the vector kept the size of an earlier, larger population
C30_Witness ==
    /\ ~fault /\ lastop.op = "insert"
    /\ ret >= num_elements /\ num_elements < element_nodes_size
    /\ \E a \in Heads : ret \in Range(ListOf(a))
    /\ Len(query_set) > num_elements

\* ------------------------------------------------- where the cell nodes are
\* the node indices linked from node n on, in link order
RECURSIVE nodes_from(_, _)
nodes_from(n, fuel) ==
    IF ~InStore(cell_nodes, n) \/ fuel = 0 THEN << >>
    ELSE << n >> \o nodes_from(At(cell_nodes, n).next, fuel - 1)
NodesOf(a) == nodes_from(At(cell_nodes, a).next, Len(cell_nodes) + 1)
FreeNodes == nodes_from(free_cell_nodes, Len(cell_nodes) + 1)

RECURSIVE SumCount(_, _)
SumCount(S, n) ==
    IF S = {} THEN 0
    ELSE LET a == CHOOSE x \in S : TRUE
         IN  Count(NodesOf(a), n) + SumCount(S \ {a}, n)

\* the number of places node n is linked at: in the cell lists and on the free list
Places(n) == SumCount(Heads, n) + Count(FreeNodes, n)

RECURSIVE SumLen(_)
SumLen(S) ==
    IF S = {} THEN 0
    ELSE LET a == CHOOSE x \in S : TRUE IN Len(NodesOf(a)) + SumLen(S \ {a})

\* C31: under matching-bounds usage every ordinary cell node (index >=
\* 2^ZBitWidth) is in exactly one place, one cell list or the node free list;
\* no list and no free list links anything else; the number of ordinary nodes is
\* the number of cell memberships plus the length of the free list.
C31_NodeInOnePlace ==
    ~fault =>
        /\ \A n \in NumHeads..(cell_nodes_size - 1) : Places(n) = 1
        /\ \A a \in Heads : Range(NodesOf(a)) \subseteq NumHeads..(cell_nodes_size - 1)
        /\ Range(FreeNodes) \subseteq NumHeads..(cell_nodes_size - 1)
        /\ SumLen(Heads) = Memberships
        /\ cell_nodes_size - NumHeads = SumLen(Heads) + Len(FreeNodes)

\* ------------------------------------------------------------ termination
\* the chain of next links from index n in the vector v stops within fuel
\* steps: at the terminator -1, or at an index that is not in v
RECURSIVE Stops(_, _, _)
Stops(v, n, fuel) ==
    IF ~InStore(v, n) THEN TRUE
    ELSE IF fuel = 0 THEN FALSE
    ELSE Stops(v, At(v, n).next, fuel - 1)

\* C32: every operation terminates.  Under matching-bounds usage no cell list
\* and neither free list is cyclic: the walk from each head and from each
\* free-list head stops after at most as many steps as there are nodes, so the
\* walks of cell_query and cell_remove end, and no call made so far has walked
\* a list without end.
C32_Terminates ==
    /\ \A o \in oor : o[1] # "loop"
    /\ ~fault =>
        /\ \A a \in Heads : Stops(cell_nodes, At(cell_nodes, a).next, Len(cell_nodes))
        /\ Stops(cell_nodes, free_cell_nodes, Len(cell_nodes))
        /\ Stops(element_nodes, free_element_nodes, Len(element_nodes))

\* ---------------------------------------------------------- the handles
\* the handles on the element free list, in list order
RECURSIVE free_seq_from(_, _)
free_seq_from(n, fuel) ==
    IF ~InStore(element_nodes, n) \/ fuel = 0 THEN << >>
    ELSE << n >> \o free_seq_from(At(element_nodes, n).next, fuel - 1)
FreeHandles == free_seq_from(free_element_nodes, Len(element_nodes) + 1)

LiveHandles == {ents[v].h : v \in Live}

\* C33: insert never returns a handle that is live.  With every handle removed
\* at most once, the live handles and the handles on the element free list are
\* disjoint and together are exactly [0, element_nodes.size()), each free
\* handle is on the free list once, distinct live elements have distinct
\* handles, and num_elements is the number of live handles.
C33_HandlePartition ==
    ~fault =>
        /\ lastop.op = "insert" =>
              \A v \in Live : v # lastop.v => ents[v].h # ret
        /\ LiveHandles \cap Range(FreeHandles) = {}
        /\ LiveHandles \cup Range(FreeHandles) = 0..(element_nodes_size - 1)
        /\ \A h \in Range(FreeHandles) : Count(FreeHandles, h) = 1
        /\ Cardinality(LiveHandles) = Cardinality(Live)
        /\ num_elements = Cardinality(LiveHandles)

\* ----------------------------------------------------- queries are reads
\* the index: everything of the grid but the scratch state
Index(g) == << g.elements, g.elements_size, g.element_nodes, g.element_nodes_size,
               g.cell_nodes, g.cell_nodes_size, g.free_element_nodes,
               g.free_cell_nodes, g.num_elements >>

\* what a results container may hold when it is passed to query
Held == { << >>, << Val(1) >>, << Val(2), Val(2) >> }

\* the call that has just returned, made again with the container holding p
Again(g, op, b, p, ub) ==
    IF op = "visit" THEN visit([g EXCEPT !.results = p], get_cell_bounds(b), ub)
    ELSE query([g EXCEPT !.results = p], get_cell_bounds(b), ub)

\* C34: a query or visit that returns has left the index as it was (the cell
\* lists, the element arena, both free-list heads and num_elements); it appends
\* to the caller's container and leaves what the container held; made again
\* directly afterwards it returns the same elements.
C34_QueryIsRead ==
    [][ (lastop'.op \in {"query", "visit"} /\ ~fault') =>
            /\ Index(Grid') = Index(Grid)
            /\ \A a \in Heads : ListOf(a)' = ListOf(a)
            /\ \A ub \in UB : \A p \in Held :
               \A g \in { Again(Grid', lastop'.op, lastop'.b, p, ub) } :
                  ~g.fault => /\ g.results = p \o results'
                              /\ Index(g) = Index(Grid)
      ]_vars

\* C34 witness: the same query made twice in a row on a grid with both free
\* lists non-empty, returning an element both times
C34_Witness ==
    /\ ~fault /\ lastop.op = "query" /\ prevop.op = "query" /\ prevop.b = lastop.b
    /\ Len(results) >= 1
    /\ free_cell_nodes # -1 /\ free_element_nodes # -1

\* ------------------------------------------- a bounds that aliases with itself
\* two or more cells of b have the same address
Aliased(b) == \E a \in Heads : CellsAt(b, a) > 1

\* bounds three cells high: the cells of rows 0 and 2 have the same address
AliasBounds == { Bounds(5, 5, 3, 20), Bounds(15, 5, 3, 20) }

NextAlias ==
    \/ \E v \in Values, b \in AliasBounds \cup {Bounds(5, 5, 3, 3)} : Insert(v, b)
    \/ \E v \in Values : Remove(v)
    \/ \E b \in AliasBounds : Query(b)
    \/ Clear

SpecAlias == Init /\ [][NextAlias]_vars

\* C35: round trip and deduplication for a bounds that aliases with itself.
\* insert(V, B) puts the handle in the list of an address once per cell of B
\* with that address; a query(B) that directly follows returns V exactly once;
\* remove(h, B) completes and leaves no node holding h in any list.
C35_SelfAlias ==
    [][ /\ (lastop'.op = "insert" /\ Aliased(lastop'.b)) =>
              /\ ~fault'
              /\ \A a \in Heads : Count(ListOf(a)', ret') = CellsAt(lastop'.b, a)
        /\ (lastop'.op = "query" /\ lastop.op = "insert" /\ lastop'.b = lastop.b
                /\ Aliased(lastop.b)) =>
              /\ ~fault'
              /\ Count(results', lastop.v) = 1
        /\ (lastop'.op = "remove" /\ Aliased(lastop'.b)) =>
              /\ ~fault'
              /\ \A a \in Heads : Count(ListOf(a)', ents[lastop'.v].h) = 0
      ]_vars

\* ------------------------------------------------------ the point forms
\* a query(int x, int y, R&) that rounds the cell coordinates down
query_xy_floor(g, x, y, ub) ==
    LET g1 == cell_query(g, Address(FloorDiv(x, CellSize), FloorDiv(y, CellSize)), ub)
        g2 == collect(g1, 0, ub)
        g3 == reset_query_set(g2)
    IN  IF g3.fault THEN [g3 EXCEPT !.results = << >>] ELSE g3

\* query(int x, int y, R&): the one cell of (x / CellSize, y / CellSize)
query_xy(g, x, y, ub) ==
    LET g1 == cell_query(g, Address(TruncDiv(x, CellSize), TruncDiv(y, CellSize)), ub)
        g2 == collect(g1, 0, ub)
        g3 == reset_query_set(g2)
    IN  IF g3.fault THEN [g3 EXCEPT !.results = << >>] ELSE g3

\* visit(int x, int y, VisitFunc, user_data)
visit_xy(g, x, y, ub) ==
    LET g1 == cell_query(g, Address(TruncDiv(x, CellSize), TruncDiv(y, CellSize)), ub)
        g2 == collect(g1, 0, ub)
    IN  reset_query_set(g2)

\* the points the callers ask about: in cell (1,0), in cell (0,2), whose
\* address is that of (0,0), and left of 0, which is in cell (0,0)
Points == { << 12, 5 >>, << 5, 25 >>, << -5, 5 >> }

\* grid.query(x, y, results) into an empty container
QueryXY(x, y) ==
    /\ Call
    /\ UNCHANGED nins
    /\ LET gl == query_xy(Grid, x, y, "lenient")
       IN  \E g \in Outcomes(gl, query_xy(Grid, x, y, "trap")) : Commit(g)
    /\ lastop' = Op("query_xy", 0, Bounds(x, y, 0, 0), NoBounds)
    /\ UNCHANGED ents

\* grid.visit(x, y, VisitFunc, user_data) with a VisitFunc that records its argument
VisitXY(x, y) ==
    /\ Call
    /\ UNCHANGED nins
    /\ LET gl == visit_xy(Grid, x, y, "lenient")
       IN  \E g \in Outcomes(gl, visit_xy(Grid, x, y, "trap")) : Commit(g)
    /\ lastop' = Op("visit_xy", 0, Bounds(x, y, 0, 0), NoBounds)
    /\ UNCHANGED ents

\* the bounds the callers insert with: one cell, the cell right of it, and
\* three cells high
PointEntBounds == { Bounds(5, 5, 3, 3), Bounds(12, 5, 3, 3), Bounds(5, 5, 3, 20) }

NextPoint ==
    \/ \E v \in Values, b \in PointEntBounds : Insert(v, b)
    \/ \E v \in Values : Remove(v)
    \/ \E b \in QueryBounds : Query(b)
    \/ \E b \in QueryBounds : Visit(b)
    \/ \E p \in Points : QueryXY(p[1], p[2])
    \/ \E p \in Points : VisitXY(p[1], p[2])
    \/ Clear

SpecPoint == Init /\ [][NextPoint]_vars

\* what a call returned, or that it did not return
Outcome(g) == IF g.fault THEN << "fault" >> ELSE << "ok", g.results >>

\* C36: visit and query agree.  In every grid state, for every bounds,
\* visit(bounds, f) calls f with exactly the sequence of elements that
\* query(bounds) returns (same elements, same order, each once), and
\* query(x, y) and visit(x, y) give what query and visit give for the
\* zero-area bounds {x, y, 0, 0}.
C36_VisitQueryAgree ==
    ~fault =>
        \A ub \in UB :
            /\ \A b \in QueryBounds \cup AliasBounds :
                 \A q \in { query(Grid, get_cell_bounds(b), ub) } :
                 \A f \in { visit(Grid, get_cell_bounds(b), ub) } :
                    /\ Outcome(f) = Outcome(q)
                    /\ ~q.fault => \A i, j \in 1..Len(q.results) :
                                       q.results[i] = q.results[j] => i = j
            /\ \A p \in Points :
                 \A q \in { query(Grid, get_cell_bounds(Bounds(p[1], p[2], 0, 0)), ub) } :
                    /\ Outcome(query_xy(Grid, p[1], p[2], ub)) = Outcome(q)
                    /\ Outcome(visit_xy(Grid, p[1], p[2], ub)) = Outcome(q)

\* C36 witness: a visit that called f for two elements, the two a query of the
\* same bounds returns, in a grid where the point left of 0 finds an element
C36_Witness ==
    /\ ~fault
    /\ lastop.op = "visit"
    /\ Len(results) >= 2
    /\ query(Grid, get_cell_bounds(lastop.b), "trap").results = results
    /\ Len(query_xy(Grid, -5, 5, "trap").results) >= 1

\* ------------------------------- the grid with fixed cells and an overflow
\* the instances' nodes and the static overflow vector as one value
OvGrid == [nodes |-> nodes, overflow |-> global_overflow, broken |-> broken]

\* entities[curr] == old_entity; on a slot never assigned the comparison reads
\* an indeterminate value and may give either answer
Match(slot, e, guess) == IF slot < 0 THEN guess ELSE slot = e

\* node::insert(new_entity) on the node me = << instance, address >>
node_insert(s, me, new_entity) ==
    LET nd == s.nodes[me[1]][me[2]]
    IN  IF s.broken THEN s
        ELSE IF nd.size < CellDepth
        THEN [s EXCEPT !.nodes[me[1]][me[2]].entities[nd.size + 1] = new_entity,
                       !.nodes[me[1]][me[2]].size = nd.size + 1]
        ELSE [s EXCEPT !.overflow = Append(@, [entity |-> new_entity, owner |-> me]),
                       !.nodes[me[1]][me[2]].overflow_count = nd.overflow_count + 1]

\* the sequence without its k-th entry (vector::erase)
Erase(seq, k) == SubSeq(seq, 1, k - 1) \o SubSeq(seq, k + 1, Len(seq))

\* node::remove(old_entity).  The first loop compares all CellDepth slots, also
\* those at and beyond size; with size 0 a hit reads entities[size - 1] before the
\* array and wraps size.  The second loop erases the first overflow entry whose
\* owner is this node.
node_remove(s, me, old_entity, guess) ==
    LET nd == s.nodes[me[1]][me[2]]
        hits == {k \in 1..CellDepth : Match(nd.entities[k], old_entity, guess)}
        owned == {k \in 1..Len(s.overflow) : s.overflow[k].owner = me}
    IN  IF s.broken THEN s
        ELSE IF hits # {}
        THEN LET k == CHOOSE h \in hits : \A o \in hits : h <= o
             IN  IF nd.size = 0 THEN [s EXCEPT !.broken = TRUE]
                 ELSE [s EXCEPT !.nodes[me[1]][me[2]].entities[k] = nd.entities[nd.size],
                                !.nodes[me[1]][me[2]].size = nd.size - 1]
        ELSE IF owned # {}
        THEN LET k == CHOOSE h \in owned : \A o \in owned : h <= o
             IN  [s EXCEPT !.overflow = Erase(@, k),
                           !.nodes[me[1]][me[2]].overflow_count = nd.overflow_count - 1]
        ELSE s

\* the entries of seq that satisfy owner = me, in order
RECURSIVE OwnedBy(_, _)
OwnedBy(seq, me) ==
    IF seq = << >> THEN << >>
    ELSE (IF Head(seq).owner = me THEN << Head(seq).entity >> ELSE << >>)
         \o OwnedBy(Tail(seq), me)

\* node::traverse(callback): the values the callback is called with, in call
\* order (CellDepth < early_out_min_count: slots below size, then the overflow
\* entries of this node when overflow_count is not 0)
node_traverse(s, me) ==
    LET nd == s.nodes[me[1]][me[2]]
    IN  SubSeq(nd.entities, 1, IF nd.size < CellDepth THEN nd.size ELSE CellDepth)
        \o (IF nd.overflow_count # 0 THEN OwnedBy(s.overflow, me) ELSE << >>)

\* iter_bounds: the addresses iter_func is called with, in call order; x, y, w
\* and h are each (v + CellSize - 1) / CellSize, and both loops include their end
iter_bounds(b) ==
    LET x == TruncDiv(b.x + CellSize - 1, CellSize)
        y == TruncDiv(b.y + CellSize - 1, CellSize)
        w == TruncDiv(b.w + CellSize - 1, CellSize)
        h == TruncDiv(b.h + CellSize - 1, CellSize)
    IN  CellAddrs(CellBounds(x, x + w, y, y + h), y)

\* grid::insert(entity, bounds) on instance i, from the k-th cell on
RECURSIVE ov_insert(_, _, _, _, _)
ov_insert(s, i, entity, cells, k) ==
    IF k > Len(cells) THEN s
    ELSE ov_insert(node_insert(s, << i, cells[k] >>, entity), i, entity, cells, k + 1)

\* grid::remove(entity, bounds)
RECURSIVE ov_remove(_, _, _, _, _, _)
ov_remove(s, i, entity, cells, k, guess) ==
    IF k > Len(cells) THEN s
    ELSE ov_remove(node_remove(s, << i, cells[k] >>, entity, guess), i, entity,
                   cells, k + 1, guess)

\* grid::update(entity, old_bounds, new_bounds)
ov_update(s, i, entity, old_cells, new_cells, guess) ==
    ov_insert(ov_remove(s, i, entity, old_cells, 1, guess), i, entity, new_cells, 1)

\* grid::traverse(bounds, callback): the values the callback is called with
RECURSIVE ov_traverse(_, _, _, _)
ov_traverse(s, i, cells, k) ==
    IF k > Len(cells) THEN << >>
    ELSE node_traverse(s, << i, cells[k] >>) \o ov_traverse(s, i, cells, k + 1)

\* grid::clear() on instance i: its nodes' counts, and the static vector
ov_clear(s, i) ==
    [s EXCEPT !.nodes[i] = [a \in DOMAIN s.nodes[i] |->
                              [s.nodes[i][a] EXCEPT !.size = 0, !.overflow_count = 0]],
              !.overflow = << >>]

\* the bounds the callers use: cell (0,0) alone, cell (1,0) alone, both
OvBounds == { Bounds(0, 0, 0, 0), Bounds(5, 0, 0, 0), Bounds(0, 0, 5, 0) }

OvOp(name, i, e, b) == [op |-> name, g |-> i, e |-> e, b |-> b]

\* a call on one of the instances; the other grid's variables are not touched
OvCall(s) ==
    /\ ~broken
    /\ ovops < MaxOvOps
    /\ ovops' = ovops + 1
    /\ nodes' = s.nodes
    /\ global_overflow' = s.overflow
    /\ broken' = s.broken
    /\ UNCHANGED << gridvars, fault, oor, ents, lastop, prevop, nins, nops, ret,
                    results, pure, thr >>

\* g.insert(e, b) with an entity not used before
OvInsert(i, e, b) ==
    /\ e = ovins + 1
    /\ OvCall(ov_insert(OvGrid, i, e, iter_bounds(b), 1))
    /\ ovins' = ovins + 1
    /\ held' = [held EXCEPT ![i][e] = b]
    /\ ovlast' = OvOp("insert", i, e, b)
    /\ UNCHANGED seen

\* g.remove(e, b) with the bounds the caller inserted e with
OvRemove(i, e, guess) ==
    /\ held[i][e] # NotHeld
    /\ OvCall(ov_remove(OvGrid, i, e, iter_bounds(held[i][e]), 1, guess))
    /\ held' = [held EXCEPT ![i][e] = NotHeld]
    /\ ovlast' = OvOp("remove", i, e, held[i][e])
    /\ UNCHANGED << ovins, seen >>

\* g.update(e, old_b, new_b)
OvUpdate(i, e, b, guess) ==
    /\ held[i][e] # NotHeld
    /\ OvCall(ov_update(OvGrid, i, e, iter_bounds(held[i][e]), iter_bounds(b), guess))
    /\ held' = [held EXCEPT ![i][e] = b]
    /\ ovlast' = OvOp("update", i, e, b)
    /\ UNCHANGED << ovins, seen >>

\* g.traverse(b, callback) with a callback that records its argument
OvTraverse(i, b) ==
    /\ OvCall(OvGrid)
    /\ seen' = ov_traverse(OvGrid, i, iter_bounds(b), 1)
    /\ ovlast' = OvOp("traverse", i, 0, b)
    /\ UNCHANGED << ovins, held >>

\* g.clear(): the caller's entities of that instance are gone with it
OvClear(i) ==
    /\ OvCall(ov_clear(OvGrid, i))
    /\ held' = [held EXCEPT ![i] = [e \in OvEnts |-> NotHeld]]
    /\ ovlast' = OvOp("clear", i, 0, NotHeld)
    /\ UNCHANGED << ovins, seen >>

NextOverflow ==
    \/ \E i \in Instances, e \in OvEnts, b \in OvBounds : OvInsert(i, e, b)
    \/ \E i \in Instances, e \in OvEnts, guess \in BOOLEAN : OvRemove(i, e, guess)
    \/ \E i \in Instances, e \in OvEnts, b \in OvBounds, guess \in BOOLEAN :
          OvUpdate(i, e, b, guess)
    \/ \E i \in Instances, b \in OvBounds : OvTraverse(i, b)
    \/ \E i \in Instances : OvClear(i)

SpecOverflow == Init /\ [][NextOverflow]_vars

\* the number of cells of the bounds the caller holds e with, in instance i,
\* whose node is the one at address a
OvExpected(i, e, a) ==
    IF held[i][e] = NotHeld THEN 0 ELSE Count(iter_bounds(held[i][e]), a)

\* C37: reads merge both tiers.  In every state traverse of a cell calls the
\* callback for exactly the entities inserted into the cell and not yet
\* removed, once per insertion: first the entities of the inline array, then
\* the overflow entries owned by the cell, and for no entity of another cell.
C37_MergeTiers ==
    ~broken =>
        \A i \in Instances : \A a \in 0..(NumHeads - 1) :
            LET t == node_traverse(OvGrid, << i, a >>)
                nd == nodes[i][a]
            IN  /\ \A e \in OvEnts : Count(t, e) = OvExpected(i, e, a)
                /\ Range(t) \subseteq OvEnts
                /\ t = SubSeq(nd.entities, 1, nd.size) \o OwnedBy(global_overflow, << i, a >>)

\* C38: node::remove(e) removes exactly e.  A remove(e, b) on an instance
\* completes, and afterwards traverse of each cell of that instance visits
\* every other entity as often as before and does not visit e, whether e was in
\* the inline array or in the overflow.
C38_RemoveExact ==
    [][ \A i \in Instances : \A e \in OvEnts :
          (ovlast'.op = "remove" /\ ovlast'.g = i /\ ovlast'.e = e) =>
              /\ ~broken'
              /\ \A a \in 0..(NumHeads - 1) :
                    /\ Count(node_traverse(OvGrid, << i, a >>)', e) = 0
                    /\ \A x \in OvEnts \ {e} :
                          Count(node_traverse(OvGrid, << i, a >>)', x)
                              = Count(node_traverse(OvGrid, << i, a >>), x)
      ]_vars

\* C39: grid instances are independent.  No insert, remove, update or clear on
\* one instance changes what traverse of any cell of another instance calls
\* the callback with.
C39_Independent ==
    [][ \A i \in Instances : \A j \in Instances \ {i} :
          (ovlast'.g = i /\ ovlast'.op \in {"insert", "remove", "update", "clear"}) =>
              \A a \in 0..(NumHeads - 1) :
                  node_traverse(OvGrid, << j, a >>)' = node_traverse(OvGrid, << j, a >>)
      ]_vars

====
